---------------------------- MODULE Spec2Model ----------------------------
(***************************************************************************)
(* NFC text-to-keyboard emulator.                                          *)
(*                                                                         *)
(*   src/index.js          the NutJS variant: card session controller      *)
(*                         (processingCard / lastProcessedCard), the       *)
(*                         TLV scanner findNdefData and the asynchronous   *)
(*                         replay driver typeText.                         *)
(*   src/unnamed/part_000  the robotjs variant: no session controller, the *)
(*                         same scanner, a synchronous batched typeText.   *)
(*                                                                         *)
(* One step of the model is one run-to-completion turn of the Node event   *)
(* loop: a driver event handler, a timer or immediate callback, or the     *)
(* continuation of an async function after the call it awaits settles.     *)
(* The ndef package, the reader driver and the keystroke backend are       *)
(* outside the repository: their results are inputs drawn with \E.         *)
(***************************************************************************)
EXTENDS Integers, Sequences, FiniteSets, TLC

VARIABLES
    processingCard,     \* index.js:20
    lastProcessedCard,  \* index.js:19
    pipes,              \* one record per handler invocation that got past the guard
    keys,               \* the keystrokes injected since the last card was accepted
    crashed,            \* an exception left a timer/immediate callback uncaught
    data,               \* scanner: the raw tag buffer under test
    ndefData,           \* scanner: what findNdefData returned for it
    lastEvent,          \* history: the driver event delivered by the last step
    removedSince        \* history: card.off for X seen since X was last accepted

vars == <<processingCard, lastProcessedCard, pipes, keys, crashed,
          data, ndefData, lastEvent, removedSince>>

ctl == <<processingCard, lastProcessedCard>>
scan == <<data, ndefData>>

-----------------------------------------------------------------------------
(* Bounds of the model                                                      *)

\* card-detected events that get past the guard in one behaviour
MaxAccepts == 3
\* the same, in the specification the liveness property is checked under
MaxLiveAccepts == 2
\* longest raw buffer handed to findNdefData
MaxBufLen == 5
\* longest text handed to typeText on its own (crosses chunkSize)
MaxTextLen == 51

\* card identifiers the driver reports
Cards == {"A", "B"}

\* lastProcessedCard = null (index.js:19, :98)
NULL == "null"

NoEvent == [kind |-> "none", uid |-> NULL]

-----------------------------------------------------------------------------
(* Program constants                                                        *)

\* index.js:15 / part_000:13
autoEnter == TRUE
\* index.js:151
chunkSize == 50
\* part_000:126
batchSize == 10


-----------------------------------------------------------------------------
(* findNdefData: index.js:111-134, identical in part_000:78-101.            *)
(* A Buffer is a sequence of bytes; JavaScript's data[i] is data[i + 1]     *)
(* here, and data.slice(a, b) is SubSeq(data, a + 1, b).                    *)

\* bytes the buffers under test are built from: the TLV tag 0x03 (also a
\* length), the lengths 0 and 1, and header bytes with Message-Begin set and
\* TNF 0 (0x80), 1 (0xD1), 6 (0x86), 7 (0x87)
ScanBytes == {0, 1, 3, 128, 134, 135, 209}

Buffers == UNION {[1..n -> ScanBytes] : n \in 0..MaxBufLen}

\* the value null, and a Buffer (possibly empty, which JavaScript holds true)
Null == [isNull |-> TRUE, bytes |-> <<>>]
Buf(b) == [isNull |-> FALSE, bytes |-> b]

\* data.slice(a, b) for 0 <= a <= b <= data.length
Slice(d, a, b) == SubSeq(d, a + 1, b)

\* the first loop's bound: i < data.length - 2
TlvLimit(d) == Len(d) - 2

\* the second loop's bound: i < data.length - 3
HeaderLimit(d) == Len(d) - 3

\* data[i] === 0x03 and i + 2 + data[i + 1] <= data.length
TlvFits(d, i) == d[i + 1] = 3 /\ i + 2 + d[i + 2] <= Len(d)

\* (headerByte & 0x80) !== 0
mb(headerByte) == (headerByte \div 128) % 2 = 1

\* headerByte & 0x07
tnf(headerByte) == headerByte % 8

\* mutant: the Type-Name-Format range test left out
IsHeaderAnyTnf(headerByte) == mb(headerByte)

\* mb && tnf >= 0x01 && tnf <= 0x06
IsHeader(headerByte) == mb(headerByte) /\ tnf(headerByte) >= 1 /\ tnf(headerByte) <= 6

\* the fallback loop from index i on
RECURSIVE HeaderScan(_, _)
HeaderScan(d, i) ==
    IF ~(i < HeaderLimit(d)) THEN Null
    ELSE IF IsHeader(d[i + 1]) THEN Buf(Slice(d, i, Len(d)))
    ELSE HeaderScan(d, i + 1)

\* the TLV loop from index i on, falling through to the fallback loop
RECURSIVE TlvScan(_, _)
TlvScan(d, i) ==
    IF ~(i < TlvLimit(d)) THEN HeaderScan(d, 0)
    ELSE IF TlvFits(d, i) THEN Buf(Slice(d, i + 2, i + 2 + d[i + 2]))
    ELSE TlvScan(d, i + 1)

findNdefData(d) == TlvScan(d, 0)

\* Scanner on its own: every buffer up to MaxBufLen, then one call.
InitScan ==
    /\ data \in Buffers
    /\ ndefData = <<>>
    /\ processingCard = FALSE
    /\ lastProcessedCard = NULL
    /\ pipes = <<>>
    /\ keys = <<>>
    /\ crashed = FALSE
    /\ lastEvent = NoEvent
    /\ removedSince = [c \in Cards |-> FALSE]

CallFindNdefData ==
    /\ ndefData = <<>>
    /\ ndefData' = <<findNdefData(data)>>
    /\ UNCHANGED <<data, ctl, pipes, keys, crashed, lastEvent, removedSince>>

NextScan == CallFindNdefData

SpecScan == InitScan /\ [][NextScan]_vars

-----------------------------------------------------------------------------
(* The ndef package (index.js:62, :65, :74).  decodeMessage and             *)
(* text.decodePayload are library calls: what they return for a given       *)
(* buffer is an input, drawn from the sets below.                           *)

\* texts a payload can decode to, as sequences of characters
Texts == {<<"h", "i">>, <<"/">>}

\* a payload decodePayload throws on, and the payloads it decodes
Payloads == {[ok |-> FALSE, text |-> <<>>]} \cup {[ok |-> TRUE, text |-> t] : t \in Texts}

\* records as decodeMessage yields them: tnf, type, payload
Records ==
    {[tnf |-> 1, type |-> "T", payload |-> pl] : pl \in Payloads}
        \cup {[tnf |-> 1, type |-> "U", payload |-> [ok |-> TRUE, text |-> <<"h", "i">>]],
              [tnf |-> 2, type |-> "T", payload |-> [ok |-> TRUE, text |-> <<"/">>]]}

RecordLists == UNION {[1..n -> Records] : n \in 0..2}

\* decodeMessage either throws or returns a list of records
DecodeResults ==
    {[threw |-> TRUE, records |-> <<>>]} \cup {[threw |-> FALSE, records |-> rs] : rs \in RecordLists}

\* reader.read(4, 256) either rejects or resolves with a buffer: one without
\* NDEF data, one with a 0x03 TLV, one with an empty 0x03 TLV (an empty
\* Buffer, which !ndefData lets through), one found by the header fallback
ReadData == {<<0, 0, 0, 0>>, <<3, 1, 209, 0>>, <<3, 0, 254>>, <<0, 209, 1, 0, 0>>}

ReadResults ==
    {[rejected |-> TRUE, data |-> <<>>]} \cup {[rejected |-> FALSE, data |-> d] : d \in ReadData}

IsTextRecord(record) == record.type = "T"

-----------------------------------------------------------------------------
(* The card session controller: index.js:32-100.                            *)
(*                                                                          *)
(* A pipe is one invocation of the async "card" handler that got past the   *)
(* guard.  pc names what it is suspended on:                                *)
(*   "read"                      await reader.read(4, 256)         (:50)    *)
(*   "startDelay"                typeText's setTimeout             (:144)   *)
(*   "escPress" "escRelease"     await keyboard.pressKey/releaseKey(:147-8) *)
(*   "tabPress" "tabRelease"     the same for Key.Tab              (:160-1) *)
(*   "type"                      await keyboard.type(char)         (:164)   *)
(*   "yield"                     await ... setImmediate            (:169)   *)
(*   "enterPress" "enterRelease" the same for Key.Enter            (:174-5) *)
(*   "debounce"                  the handler's setTimeout(.., 1000)(:82)    *)
(*   "done"                      the handler and its timers are over        *)
(* i and j are typeText's loop indices, 0-based as in the source.           *)

NewPipe(cardId) ==
    [card |-> cardId, pc |-> "read", outcome |-> "pending",
     text |-> <<>>, pressEnter |-> FALSE, i |-> 0, j |-> 0]

KeyPcs == {"escPress", "escRelease", "tabPress", "tabRelease", "type",
           "enterPress", "enterRelease"}

Min(a, b) == IF a <= b THEN a ELSE b

\* mutant: the guard without the processingCard test
RejectsDuplicateOnly(cardId) == lastProcessedCard = cardId

\* mutant: the guard without the lastProcessedCard test
RejectsBusyOnly(cardId) == processingCard

\* if (processingCard || lastProcessedCard === cardId) return;   (:37)
Rejects(cardId) == processingCard \/ lastProcessedCard = cardId

\* mutant: lastProcessedCard assigned before the guard is tested
CardHandlerMarksFirst(cardId) ==
    /\ lastProcessedCard' = cardId
    /\ IF processingCard \/ lastProcessedCard = cardId
       THEN UNCHANGED <<processingCard, pipes>>
       ELSE /\ processingCard' = TRUE
            /\ pipes' = Append(pipes, NewPipe(cardId))

\* mutant: the handler accepts without setting processingCard
CardHandlerForgetsFlag(cardId) ==
    IF Rejects(cardId)
    THEN UNCHANGED <<processingCard, lastProcessedCard, pipes>>
    ELSE /\ UNCHANGED processingCard
         /\ lastProcessedCard' = cardId
         /\ pipes' = Append(pipes, NewPipe(cardId))

\* reader.on("card", ...) up to its first await                  (:32-50)
CardHandler(cardId) ==
    IF Rejects(cardId)
    THEN UNCHANGED <<processingCard, lastProcessedCard, pipes>>
    ELSE /\ processingCard' = TRUE
         /\ lastProcessedCard' = cardId
         /\ pipes' = Append(pipes, NewPipe(cardId))

\* mutant: the test inverted
IsNotLastProcessed(uid) == lastProcessedCard # uid

\* mutant: the test left out, every removal clears
IsLastProcessedAlways(uid) == TRUE

\* if (lastProcessedCard === card.uid)                           (:97)
IsLastProcessed(uid) == lastProcessedCard = uid

\* reader.on("card.off", ...)                                    (:95-100)
CardOffHandler(uid) ==
    /\ lastProcessedCard' = IF IsLastProcessed(uid) THEN NULL ELSE lastProcessedCard
    /\ UNCHANGED <<processingCard, pipes>>

\* the driver delivers card-detected for cardId
CardDetected(cardId) ==
    /\ ~crashed
    /\ Len(pipes) < MaxAccepts
    /\ CardHandler(cardId)
    /\ lastEvent' = [kind |-> "card", uid |-> cardId]
    /\ removedSince' = IF Len(pipes') > Len(pipes)
                       THEN [removedSince EXCEPT ![cardId] = FALSE]
                       ELSE removedSince
    /\ keys' = IF Len(pipes') > Len(pipes) THEN <<>> ELSE keys
    /\ UNCHANGED <<crashed, scan>>

\* the driver delivers card-removed for uid
CardRemoved(uid) ==
    /\ ~crashed
    /\ CardOffHandler(uid)
    /\ lastEvent' = [kind |-> "card.off", uid |-> uid]
    /\ removedSince' = [removedSince EXCEPT ![uid] = TRUE]
    /\ UNCHANGED <<keys, crashed, scan>>

\* the handler returns or its catch block ends: pipe p is over, its locals
\* are gone
Finish(p, outcome) ==
    pipes' = [pipes EXCEPT ![p] = [NewPipe(pipes[p].card) EXCEPT
                                      !.pc = "done", !.outcome = outcome]]

\* mutant: the catch block without the reset of processingCard
CatchBlockNoReset(p, outcome) ==
    /\ UNCHANGED processingCard
    /\ Finish(p, outcome)

\* mutant: the early return without the reset of processingCard
NoNdefReturnStuck(p) ==
    /\ UNCHANGED processingCard
    /\ Finish(p, "noNdef")

\* catch (err) { ...; processingCard = false; }                  (:86-89)
CatchBlock(p, outcome) ==
    /\ processingCard' = FALSE
    /\ Finish(p, outcome)

\* if (!ndefData) { ...; processingCard = false; return; }       (:55-59)
NoNdefReturn(p) ==
    /\ processingCard' = FALSE
    /\ Finish(p, "noNdef")

\* mutant: the return without the reset of processingCard
NoTextReturnStuck(p) ==
    /\ UNCHANGED processingCard
    /\ Finish(p, "noText")

\* if (textRecords.length === 0) { ...; processingCard = false; return; }  (:67-71)
NoTextReturn(p) ==
    /\ processingCard' = FALSE
    /\ Finish(p, "noText")

\* mutant: typeText called without its second argument (pressEnter = false)
CallTypeTextNoEnter(p, text, pressEnter) ==
    /\ pipes' = [pipes EXCEPT ![p].pc = "startDelay", ![p].text = text,
                              ![p].pressEnter = FALSE]
    /\ UNCHANGED processingCard

\* await typeText(text, config.autoEnter): the promise executor arms the
\* start-delay timer and the handler suspends                    (:79, :142-144)
CallTypeText(p, text, pressEnter) ==
    /\ pipes' = [pipes EXCEPT ![p].pc = "startDelay", ![p].text = text,
                              ![p].pressEnter = pressEnter]
    /\ UNCHANGED processingCard

\* the handler from the settling of reader.read to its next await or its
\* return                                                        (:50-79, :86-89)
AfterRead(p, r, dm) ==
    IF r.rejected THEN CatchBlock(p, "readError")
    ELSE LET found == findNdefData(r.data) IN
         IF found.isNull THEN NoNdefReturn(p)
         ELSE IF dm.threw THEN CatchBlock(p, "decodeError")
         ELSE LET textRecords == SelectSeq(dm.records, IsTextRecord) IN
              IF Len(textRecords) = 0 THEN NoTextReturn(p)
              ELSE IF ~textRecords[1].payload.ok THEN CatchBlock(p, "payloadError")
              ELSE CallTypeText(p, textRecords[1].payload.text, autoEnter)

\* reader.read settles for pipe p
ReadSettles(p) ==
    /\ ~crashed
    /\ pipes[p].pc = "read"
    /\ \E r \in ReadResults, dm \in DecodeResults : AfterRead(p, r, dm)
    /\ lastEvent' = NoEvent
    /\ UNCHANGED <<lastProcessedCard, keys, crashed, scan, removedSince>>

-----------------------------------------------------------------------------
(* typeText of index.js: 142-185.  Each keyboard call is awaited; the step  *)
(* KeySettles is the settling of the pending call followed by the code up   *)
(* to the next await.  A call that rejects injects nothing.                 *)

\* text[k] for a 0-based k
CharAt(text, k) == text[k + 1]

\* text.slice(i, i + chunkSize).length                           (:153)
ChunkLen(text, i) == Min(chunkSize, Len(text) - i)

\* mutant: "/" typed like any other character
CallForCharLiteral(char) == "type"

\* if (char === "/") pressKey(Key.Tab) else type(char)           (:159-165)
CallForChar(char) == IF char = "/" THEN "tabPress" ELSE "type"

\* resolve(): the awaiting handler goes on to arm the debounce timer
\* (:178 or :181, then :82-85)
Resolved(pipe, outcome) == [pipe EXCEPT !.pc = "debounce", !.outcome = outcome]

\* mutant: Enter pressed whatever pressEnter says
AfterLoopAlwaysEnter(pipe) == [pipe EXCEPT !.pc = "enterPress"]

\* if (pressEnter) await keyboard.pressKey(Key.Enter) ...; resolve()  (:173-178)
AfterLoop(pipe) ==
    IF pipe.pressEnter THEN [pipe EXCEPT !.pc = "enterPress"]
    ELSE Resolved(pipe, "typed")

\* the outer loop's test with i = k, and the first character of the chunk
\* (:152-156)
LoopEntry(pipe, k) ==
    IF k < Len(pipe.text)
    THEN [pipe EXCEPT !.pc = CallForChar(CharAt(pipe.text, k)), !.i = k, !.j = 0]
    ELSE AfterLoop([pipe EXCEPT !.i = k])

\* j++ and the inner loop's test; past the chunk, the setImmediate yield
\* (:155, :169)
AfterChar(pipe) ==
    IF pipe.j + 1 < ChunkLen(pipe.text, pipe.i)
    THEN [pipe EXCEPT !.pc = CallForChar(CharAt(pipe.text, pipe.i + pipe.j + 1)),
                      !.j = pipe.j + 1]
    ELSE [pipe EXCEPT !.pc = "yield"]

\* what the pending keyboard call injects
KeyOf(pipe) ==
    CASE pipe.pc = "escPress"     -> [op |-> "pressKey",   key |-> "Escape"]
      [] pipe.pc = "escRelease"   -> [op |-> "releaseKey", key |-> "Escape"]
      [] pipe.pc = "tabPress"     -> [op |-> "pressKey",   key |-> "Tab"]
      [] pipe.pc = "tabRelease"   -> [op |-> "releaseKey", key |-> "Tab"]
      [] pipe.pc = "type"         -> [op |-> "type", key |-> CharAt(pipe.text, pipe.i + pipe.j)]
      [] pipe.pc = "enterPress"   -> [op |-> "pressKey",   key |-> "Enter"]
      [] pipe.pc = "enterRelease" -> [op |-> "releaseKey", key |-> "Enter"]

\* the code that follows the pending keyboard call, to the next await
Continue(pipe) ==
    CASE pipe.pc = "escPress"     -> [pipe EXCEPT !.pc = "escRelease"]
      [] pipe.pc = "escRelease"   -> LoopEntry(pipe, 0)
      [] pipe.pc = "tabPress"     -> [pipe EXCEPT !.pc = "tabRelease"]
      [] pipe.pc = "tabRelease"   -> AfterChar(pipe)
      [] pipe.pc = "type"         -> AfterChar(pipe)
      [] pipe.pc = "enterPress"   -> [pipe EXCEPT !.pc = "enterRelease"]
      [] pipe.pc = "enterRelease" -> Resolved(pipe, "typed")

\* catch (error) { console.error(...); resolve(); }              (:179-182)
TypingCatch(pipe) == Resolved(pipe, "typeError")

\* one injected keystroke, tagged with the pipe it belongs to
Injected(p, k) == [p |-> p, op |-> k.op, key |-> k.key]

\* the start-delay timer fires: await keyboard.pressKey(Key.Escape)  (:144-147)
StartDelayFires(p) ==
    /\ ~crashed
    /\ pipes[p].pc = "startDelay"
    /\ pipes' = [pipes EXCEPT ![p].pc = "escPress"]
    /\ lastEvent' = NoEvent
    /\ UNCHANGED <<ctl, keys, crashed, scan, removedSince>>

\* the pending keyboard call of pipe p settles
KeySettles(p) ==
    /\ ~crashed
    /\ pipes[p].pc \in KeyPcs
    /\ \/ /\ keys' = Append(keys, Injected(p, KeyOf(pipes[p])))
          /\ pipes' = [pipes EXCEPT ![p] = Continue(pipes[p])]
       \/ /\ keys' = keys
          /\ pipes' = [pipes EXCEPT ![p] = TypingCatch(pipes[p])]
    /\ lastEvent' = NoEvent
    /\ UNCHANGED <<ctl, crashed, scan, removedSince>>

\* the setImmediate of the yield runs: i += chunkSize            (:169, :152)
YieldResumes(p) ==
    /\ ~crashed
    /\ pipes[p].pc = "yield"
    /\ pipes' = [pipes EXCEPT ![p] = LoopEntry(pipes[p], pipes[p].i + chunkSize)]
    /\ lastEvent' = NoEvent
    /\ UNCHANGED <<ctl, keys, crashed, scan, removedSince>>

\* setTimeout(() => { processingCard = false; ... }, 1000) fires (:82-85)
DebounceFires(p) ==
    /\ ~crashed
    /\ pipes[p].pc = "debounce"
    /\ processingCard' = FALSE
    /\ Finish(p, pipes[p].outcome)
    /\ lastEvent' = NoEvent
    /\ UNCHANGED <<lastProcessedCard, keys, crashed, scan, removedSince>>

\* a step of pipe p that is not a driver event
PipeStep(p) ==
    \/ ReadSettles(p)
    \/ StartDelayFires(p)
    \/ KeySettles(p)
    \/ YieldResumes(p)
    \/ DebounceFires(p)

\* the state once emulateKeyboardFromNFC() has registered its handlers
\* (:19-20, :187)
Init ==
    /\ processingCard = FALSE
    /\ lastProcessedCard = NULL
    /\ pipes = <<>>
    /\ keys = <<>>
    /\ crashed = FALSE
    /\ data = <<>>
    /\ ndefData = <<>>
    /\ lastEvent = NoEvent
    /\ removedSince = [c \in Cards |-> FALSE]

Next ==
    \/ \E cardId \in Cards : CardDetected(cardId)
    \/ \E uid \in Cards : CardRemoved(uid)
    \/ \E p \in DOMAIN pipes : ReadSettles(p)
    \/ \E p \in DOMAIN pipes : StartDelayFires(p)
    \/ \E p \in DOMAIN pipes : KeySettles(p)
    \/ \E p \in DOMAIN pipes : YieldResumes(p)
    \/ \E p \in DOMAIN pipes : DebounceFires(p)

Spec == Init /\ [][Next]_vars

\* reader.read settles, timers and immediates fire, keyboard calls settle
Fairness == \A p \in 1..MaxAccepts : WF_vars(p \in DOMAIN pipes /\ PipeStep(p))

\* Next with at most MaxLiveAccepts accepted cards
LiveNext ==
    \/ \E cardId \in Cards : CardDetected(cardId) /\ Len(pipes') <= MaxLiveAccepts
    \/ \E uid \in Cards : CardRemoved(uid)
    \/ \E p \in DOMAIN pipes : ReadSettles(p)
    \/ \E p \in DOMAIN pipes : StartDelayFires(p)
    \/ \E p \in DOMAIN pipes : KeySettles(p)
    \/ \E p \in DOMAIN pipes : YieldResumes(p)
    \/ \E p \in DOMAIN pipes : DebounceFires(p)

LiveSpec == Init /\ [][LiveNext]_vars /\ Fairness

-----------------------------------------------------------------------------
(* typeText of part_000: 108-141.  The robotjs calls are synchronous: the   *)
(* closure type() injects a batch and re-arms itself with setImmediate.  It *)
(* runs in a timer or immediate callback with no try/catch around it, so a  *)
(* call that throws leaves the callback uncaught.                           *)
(*   "r_startDelay"  setTimeout(..., config.startDelay) pending     (:109)  *)
(*   "r_immediate"   setImmediate(type) pending                     (:127)  *)
(*   "r_done"        type() returned without re-arming                      *)
(*   "r_crashed"     a robotjs call threw                                   *)

\* if (char === "/") robot.keyTap("tab") else robot.typeString(char)  (:117-123)
RobotKeyFor(char) ==
    IF char = "/" THEN [op |-> "keyTap", key |-> "tab"]
    ELSE [op |-> "typeString", key |-> char]

\* the while loop of type() entered with i = k: the calls it makes, the i it
\* leaves, and whether it left through setImmediate(type); return  (:113-130)
RECURSIVE RobotLoop(_, _)
RobotLoop(text, k) ==
    IF ~(k < Len(text)) THEN [calls |-> <<>>, i |-> k, yielded |-> FALSE]
    ELSE LET call == RobotKeyFor(CharAt(text, k)) IN
         IF (k + 1) % batchSize = 0
         THEN [calls |-> <<call>>, i |-> k + 1, yielded |-> TRUE]
         ELSE LET rest == RobotLoop(text, k + 1) IN
              [calls |-> <<call>> \o rest.calls, i |-> rest.i, yielded |-> rest.yielded]

\* one run of type(): the loop, then Enter unless the loop yielded  (:112-136)
RobotType(pipe) ==
    LET run == RobotLoop(pipe.text, pipe.i) IN
    [run EXCEPT !.calls =
        IF ~run.yielded /\ pipe.pressEnter
        THEN run.calls \o <<[op |-> "keyTap", key |-> "enter"]>>
        ELSE run.calls]

Tagged(p, calls) == [n \in 1..Len(calls) |-> Injected(p, calls[n])]

\* type() runs for pipe p; the first n calls succeed, the next one throws
RunType(p) ==
    LET run == RobotType(pipes[p]) IN
    \E n \in 0..Len(run.calls) :
        /\ keys' = keys \o Tagged(p, SubSeq(run.calls, 1, n))
        /\ IF n = Len(run.calls)
           THEN /\ pipes' = [pipes EXCEPT ![p].i = run.i,
                                ![p].pc = IF run.yielded THEN "r_immediate" ELSE "r_done"]
                /\ UNCHANGED crashed
           ELSE /\ pipes' = [pipes EXCEPT ![p].pc = "r_crashed"]
                /\ crashed' = TRUE

\* the start-delay timer of part_000's typeText fires: let i = 0; type()
\* (:109-139)
RobotStartDelayFires(p) ==
    /\ ~crashed
    /\ pipes[p].pc = "r_startDelay"
    /\ RunType(p)
    /\ lastEvent' = NoEvent
    /\ UNCHANGED <<ctl, scan, removedSince>>

\* the immediate armed by type() runs type() again               (:127)
RobotImmediate(p) ==
    /\ ~crashed
    /\ pipes[p].pc = "r_immediate"
    /\ RunType(p)
    /\ lastEvent' = NoEvent
    /\ UNCHANGED <<ctl, scan, removedSince>>

-----------------------------------------------------------------------------
(* typeText on its own, in both variants: one call with a text of up to     *)
(* MaxTextLen characters, entered at the moment its start-delay timer is    *)
(* armed.                                                                   *)

\* how the "/" characters lie in a text: none, all, every second character,
\* the last and the first character of every batch of batchSize
SlashPatterns == {"none", "all", "even", "batchEnd", "batchStart"}

\* the k-th character (1-based) of a text with the given pattern
PatternChar(pat, k) ==
    IF \/ pat = "all"
       \/ pat = "even" /\ k % 2 = 0
       \/ pat = "batchEnd" /\ k % batchSize = 0
       \/ pat = "batchStart" /\ k % batchSize = 1
    THEN "/"
    ELSE <<"a", "b", "c">>[(k % 3) + 1]

TypeTexts ==
    {[k \in 1..n |-> PatternChar(pat, k)] : n \in 0..MaxTextLen, pat \in SlashPatterns}

InitType ==
    /\ \E text \in TypeTexts, pressEnter \in BOOLEAN, pc \in {"startDelay", "r_startDelay"} :
          /\ pipes = <<[NewPipe("A") EXCEPT !.pc = pc, !.text = text,
                                            !.pressEnter = pressEnter]>>
          /\ processingCard = (pc = "startDelay")
          /\ lastProcessedCard = IF pc = "startDelay" THEN "A" ELSE NULL
    /\ keys = <<>>
    /\ crashed = FALSE
    /\ data = <<>>
    /\ ndefData = <<>>
    /\ lastEvent = NoEvent
    /\ removedSince = [c \in Cards |-> FALSE]

NextType ==
    \/ \E p \in DOMAIN pipes : StartDelayFires(p)
    \/ \E p \in DOMAIN pipes : KeySettles(p)
    \/ \E p \in DOMAIN pipes : YieldResumes(p)
    \/ \E p \in DOMAIN pipes : DebounceFires(p)
    \/ \E p \in DOMAIN pipes : RobotStartDelayFires(p)
    \/ \E p \in DOMAIN pipes : RobotImmediate(p)

SpecType == InitType /\ [][NextType]_vars

-----------------------------------------------------------------------------
(* The card handler of part_000: 26-65.  It has no guard and no state of    *)
(* its own: every card-detected event starts a handler, and the handler     *)
(* calls typeText without awaiting anything of it, so the replay goes on    *)
(* in the timer and immediate callbacks after the handler has returned.     *)
(*   "r_read"      suspended at await reader.read(4, 256)           (:34)   *)
(*   "r_returned"  the handler returned or its catch block ran, typeText    *)
(*                 not called                                               *)

\* texts the tags of this variant carry: a short one and one of exactly
\* batchSize characters
RobotTexts == {<<"h", "i">>, [k \in 1..batchSize |-> PatternChar("batchEnd", k)]}

RobotPayloads ==
    {[ok |-> TRUE, text |-> t] : t \in RobotTexts} \cup {[ok |-> FALSE, text |-> <<>>]}

RobotRecords ==
    {[tnf |-> 1, type |-> "T", payload |-> pl] : pl \in RobotPayloads}
        \cup {[tnf |-> 1, type |-> "U", payload |-> [ok |-> TRUE, text |-> <<"h", "i">>]]}

\* what ndef.decodeMessage gives: it throws, or a list of records
RobotDecodeResults ==
    {[threw |-> TRUE, records |-> <<>>]}
        \cup {[threw |-> FALSE, records |-> rs] :
                 rs \in {<<>>} \cup {<<rec>> : rec \in RobotRecords}}

\* reader.on("card", async (card) => ...) up to its await         (:26-34)
RobotCardHandler(cardId) ==
    pipes' = Append(pipes, [NewPipe(cardId) EXCEPT !.pc = "r_read"])

\* the reader reports a card
RobotCardDetected(cardId) ==
    /\ ~crashed
    /\ Len(pipes) < MaxAccepts
    /\ RobotCardHandler(cardId)
    /\ lastEvent' = [kind |-> "card", uid |-> cardId]
    /\ UNCHANGED <<ctl, keys, crashed, scan, removedSince>>

\* return, or catch (err) { console.error(...) }       (:39-42, :55-58, :62-64)
RobotReturn(p, outcome) ==
    pipes' = [pipes EXCEPT ![p].pc = "r_returned", ![p].outcome = outcome]

\* typeText(text, config.autoEnter), not awaited: the start-delay timer is
\* armed and the handler returns                                  (:61, :108-109)
RobotCallTypeText(p, text, pressEnter) ==
    pipes' = [pipes EXCEPT ![p].pc = "r_startDelay", ![p].text = text,
                           ![p].pressEnter = pressEnter]

\* the handler from the settling of reader.read to its return     (:34-64)
RobotAfterRead(p, r, dm) ==
    IF r.rejected THEN RobotReturn(p, "readError")
    ELSE LET found == findNdefData(r.data) IN
         IF found.isNull THEN RobotReturn(p, "noNdef")
         ELSE IF dm.threw THEN RobotReturn(p, "decodeError")
         ELSE LET textRecords == SelectSeq(dm.records, IsTextRecord) IN
              IF Len(textRecords) = 0 THEN RobotReturn(p, "noText")
              ELSE IF ~textRecords[1].payload.ok THEN RobotReturn(p, "payloadError")
              ELSE RobotCallTypeText(p, textRecords[1].payload.text, autoEnter)

\* reader.read settles for pipe p
RobotReadSettles(p) ==
    /\ ~crashed
    /\ pipes[p].pc = "r_read"
    /\ \E r \in ReadResults, dm \in RobotDecodeResults : RobotAfterRead(p, r, dm)
    /\ lastEvent' = NoEvent
    /\ UNCHANGED <<ctl, keys, crashed, scan, removedSince>>

\* part_000 as a whole; keys holds every injection since the start
NextRobot ==
    \/ \E cardId \in Cards : RobotCardDetected(cardId)
    \/ \E p \in DOMAIN pipes : RobotReadSettles(p)
    \/ \E p \in DOMAIN pipes : RobotStartDelayFires(p)
    \/ \E p \in DOMAIN pipes : RobotImmediate(p)

SpecRobot == Init /\ [][NextRobot]_vars

-----------------------------------------------------------------------------
(* Scanner properties (under SpecScan).  Positions are 0-based, as in the   *)
(* source.                                                                  *)

\* findNdefData has been called on data
Scanned == ndefData # <<>>

\* a byte 0x03 at p followed by a length byte L with p + 2 + L <= length
ValidTlvAt(d, p) == p + 2 <= Len(d) /\ d[p + 1] = 3 /\ p + 2 + d[p + 2] <= Len(d)

ValidTlvs(d) == {p \in 0..(Len(d) - 1) : ValidTlvAt(d, p)}

\* positions of bytes with Message-Begin set and Type-Name-Format in [1,6]
HeaderBytes(d) ==
    {p \in 0..(Len(d) - 1) : d[p + 1] >= 128 /\ d[p + 1] % 8 \in 1..6}

Leftmost(S) == CHOOSE p \in S : \A q \in S : p <= q

\* C7 (as claimed): whenever the buffer holds a valid 0x03 TLV at any
\* position, the last positions and L = 0 included, findNdefData returns
\* exactly the L bytes of the leftmost valid one.  Stated for the buffers of
\* 3 bytes and more: the scanner's contract gives "no match" for shorter ones.
C7_LeftmostTlvReturned ==
    (Scanned /\ Len(data) >= 3 /\ ValidTlvs(data) # {}) =>
        LET p == Leftmost(ValidTlvs(data))
        IN  ndefData[1] = Buf(SubSeq(data, p + 3, p + 2 + data[p + 2]))

\* C8 (as claimed): whenever the buffer holds no valid 0x03 TLV but a header
\* byte at any position, the last three included, findNdefData returns the
\* suffix that starts at the first header byte.  Stated for the buffers of
\* 3 bytes and more: the scanner's contract gives "no match" for shorter ones.
C8_HeaderSuffixReturned ==
    (Scanned /\ Len(data) >= 3 /\ ValidTlvs(data) = {} /\ HeaderBytes(data) # {}) =>
        LET p == Leftmost(HeaderBytes(data))
        IN  ndefData[1] = Buf(SubSeq(data, p + 1, Len(data)))

\* C9: a buffer of any length, 0 included, with neither a valid 0x03 TLV nor
\* a header byte makes findNdefData return null.
C9_NeitherPatternGivesNull ==
    (Scanned /\ ValidTlvs(data) = {} /\ HeaderBytes(data) = {}) =>
        ndefData[1] = Null

\* a buffer shorter than 3 bytes that holds a 0x03 whose length overruns it
C9_Witness ==
    /\ Scanned
    /\ Len(data) = 2 /\ data[1] = 3
    /\ ValidTlvs(data) = {} /\ HeaderBytes(data) = {}
    /\ ndefData[1] = Null

-----------------------------------------------------------------------------
(* Card session controller properties (under Spec, C4 under LiveSpec)       *)

\* pipes whose processing gate has not been released yet
Active == {p \in DOMAIN pipes : pipes[p].pc # "done"}

\* the step delivers card-detected for X
DetectedStep(X) == lastEvent' = [kind |-> "card", uid |-> X]

\* the step delivers card-removed for X
RemovedStep(X) == lastEvent' = [kind |-> "card.off", uid |-> X]

\* the step accepts a card-detected event for X: a new pipe for X starts
AcceptedStep(X) ==
    /\ DetectedStep(X)
    /\ Len(pipes') = Len(pipes) + 1
    /\ pipes'[Len(pipes')] = NewPipe(X)

\* a card-detected event for X has been accepted before
AcceptedBefore(X) == \E p \in DOMAIN pipes : pipes[p].card = X

\* the text of a card X has been replayed to its end
Replayed(X) ==
    \E p \in DOMAIN pipes :
        pipes[p].card = X /\ pipes[p].outcome = "typed" /\ pipes[p].pc \in {"debounce", "done"}

\* C1: at any moment at most one pipe is between its acceptance and the
\* release of the processing gate, and the gate is closed while one is.
C1_OnePipelineInFlight ==
    /\ Cardinality(Active) <= 1
    /\ Active # {} => processingCard

\* card-detected for another card arrived while a text was being typed, and
\* started nothing
C1_Witness ==
    /\ lastEvent.kind = "card"
    /\ \E p \in Active : pipes[p].pc = "type" /\ pipes[p].card # lastEvent.uid
    /\ Cardinality(Active) = 1

\* C2 (as claimed): a card-detected event for X is accepted a second time
\* only if a card-removed event for X occurred since X was last accepted,
\* whatever was detected in between.
C2_ReacceptedOnlyAfterRemoval ==
    [][\A X \in Cards : (AcceptedStep(X) /\ AcceptedBefore(X)) => removedSince[X]]_vars

\* C2 (amended): the same, when no card-detected event for another
\* identifier was accepted in between, that is when the last accepted event
\* was for X too.
C2_ConsecutiveReacceptedOnlyAfterRemoval ==
    [][\A X \in Cards :
         (AcceptedStep(X) /\ pipes # <<>> /\ pipes[Len(pipes)].card = X) => removedSince[X]]_vars

\* X has just been accepted twice in a row
C2_Witness ==
    /\ lastEvent.kind = "card"
    /\ Len(pipes) >= 2
    /\ pipes[Len(pipes)] = NewPipe(lastEvent.uid)
    /\ pipes[Len(pipes) - 1].card = lastEvent.uid

\* C3 (as claimed): once X has been replayed and card-removed for X has
\* occurred, a card-detected event for X is accepted whenever it arrives.
\* Stated for the event that directly follows the card-removed event, when
\* that one came after the replay.
C3_AcceptedAfterRemoval ==
    [][\A X \in Cards :
         (DetectedStep(X) /\ Replayed(X) /\ lastEvent = [kind |-> "card.off", uid |-> X])
             => AcceptedStep(X)]_vars

\* C3 (amended): once X has been replayed and card-removed for X has
\* occurred since X was accepted, a card-detected event for X is accepted
\* whenever it arrives with processingCard false.
C3_AcceptedAfterRemovalWhenIdle ==
    [][\A X \in Cards :
         (DetectedStep(X) /\ Replayed(X) /\ removedSince[X] /\ ~processingCard)
             => AcceptedStep(X)]_vars

\* X was replayed, removed and has just been accepted again
C3_Witness ==
    /\ Len(pipes) = 2
    /\ lastEvent = [kind |-> "card", uid |-> pipes[2].card]
    /\ pipes[1].card = pipes[2].card
    /\ pipes[1].pc = "done" /\ pipes[1].outcome = "typed"
    /\ pipes[2] = NewPipe(pipes[2].card)

\* C4: whenever processingCard is true it becomes false again, given that
\* reads and keyboard calls settle and timers fire.
C4_GateReleased == processingCard ~> ~processingCard

\* the gate is open again after a typing failure and a message without text
\* record
C4_Witness ==
    /\ ~processingCard
    /\ {"typeError", "noText"} \subseteq {pipes[p].outcome : p \in DOMAIN pipes}
    /\ Active = {}

\* C5: a card-detected event that meets the guard (processingCard true, or
\* the identifier equal to lastProcessedCard) changes neither flag, starts
\* no pipe and injects no key; and a pipe only ever starts in the step of a
\* card-detected event that does not meet the guard.
C5_RejectedIsDropped ==
    /\ [][\A X \in Cards :
            (DetectedStep(X) /\ (processingCard \/ lastProcessedCard = X))
                => UNCHANGED <<processingCard, lastProcessedCard, pipes, keys>>]_vars
    /\ [][pipes' # pipes /\ Len(pipes') # Len(pipes) =>
            \E X \in Cards : /\ AcceptedStep(X)
                             /\ ~(processingCard \/ lastProcessedCard = X)
                             /\ pipes' = Append(pipes, NewPipe(X))]_vars

\* a card-detected event for another card was dropped during the debounce
\* window of a replay
C5_Witness ==
    /\ lastEvent.kind = "card"
    /\ processingCard
    /\ keys # <<>>
    /\ \E p \in Active : pipes[p].pc = "debounce" /\ pipes[p].card # lastEvent.uid

\* C6: card-removed for X sets lastProcessedCard to null if it equals X and
\* leaves it otherwise, and leaves processingCard, the pipes and the keys
\* unchanged.
C6_RemovalClearsOnlyMatching ==
    [][\A X \in Cards :
         RemovedStep(X) =>
            /\ lastProcessedCard' = IF lastProcessedCard = X THEN NULL ELSE lastProcessedCard
            /\ UNCHANGED <<processingCard, pipes, keys>>]_vars

\* the card being typed was removed: lastProcessedCard is null, the pipe goes on
C6_Witness ==
    /\ lastEvent.kind = "card.off"
    /\ lastProcessedCard = NULL
    /\ processingCard
    /\ \E p \in Active : pipes[p].pc = "type" /\ pipes[p].card = lastEvent.uid

-----------------------------------------------------------------------------
(* Replay driver properties (under SpecType)                                *)

IsPrefix(a, b) == Len(a) <= Len(b) /\ a = SubSeq(b, 1, Len(a))

\* the per-character emissions: every keystroke but Escape and Enter
IsCharKey(k) == k.key \notin {"Escape", "Enter", "enter"}

CharKeys == SelectSeq(keys, IsCharKey)

\* what the claim has character c emit in each variant: a Tab keystroke for
\* "/", the literal character otherwise
TabKeystroke(p, robot) ==
    IF robot THEN <<[p |-> p, op |-> "keyTap", key |-> "tab"]>>
    ELSE <<[p |-> p, op |-> "pressKey", key |-> "Tab"],
           [p |-> p, op |-> "releaseKey", key |-> "Tab"]>>

Literal(p, robot, c) ==
    <<[p |-> p, op |-> IF robot THEN "typeString" ELSE "type", key |-> c]>>

RECURSIVE ExpectedChars(_, _, _)
ExpectedChars(p, robot, text) ==
    IF text = <<>> THEN <<>>
    ELSE (IF Head(text) = "/" THEN TabKeystroke(p, robot) ELSE Literal(p, robot, Head(text)))
            \o ExpectedChars(p, robot, Tail(text))

IsRobotPc(pc) == pc \in {"r_startDelay", "r_immediate", "r_done", "r_crashed"}

\* typeText ran to its end with no failed injection
TypedToEnd(pipe) ==
    \/ pipe.pc = "debounce" /\ pipe.outcome = "typed"
    \/ pipe.pc = "r_done"

\* C10: the per-character emissions of a typeText call are, at every moment,
\* the first emissions the text calls for (Tab for "/", the literal
\* character otherwise, in text order, none skipped or duplicated), and all
\* of them once typeText has run to its end; a failed injection ends the
\* replay where it stands.
C10_CharsInOrder ==
    pipes[1].pc # "done" =>
        LET expected == ExpectedChars(1, IsRobotPc(pipes[1].pc), pipes[1].text)
        IN  /\ IsPrefix(CharKeys, expected)
            /\ TypedToEnd(pipes[1]) => CharKeys = expected

\* a text of MaxTextLen characters with "/" in it, typed to its end across
\* the chunk boundary
C10_Witness ==
    /\ pipes[1].pc = "debounce" /\ pipes[1].outcome = "typed"
    /\ Len(pipes[1].text) = MaxTextLen
    /\ pipes[1].text[chunkSize] = "/"
    /\ Len(CharKeys) > MaxTextLen

\* the Enter emissions
IsEnterKey(k) == k.key \in {"Enter", "enter"}

EnterKeys == SelectSeq(keys, IsEnterKey)

\* one Enter keystroke, as each variant injects it
EnterKeystroke(p, robot) ==
    IF robot THEN <<[p |-> p, op |-> "keyTap", key |-> "enter"]>>
    ELSE <<[p |-> p, op |-> "pressKey", key |-> "Enter"],
           [p |-> p, op |-> "releaseKey", key |-> "Enter"]>>

\* C11: a typeText call never emits Enter when pressEnter is false; it emits
\* nothing of Enter before the last character of the text is out, and
\* nothing after Enter; and once it has run to its end with no failed
\* injection and pressEnter true, it has emitted Enter exactly once.
C11_EnterOnceAtEnd ==
    pipes[1].pc # "done" =>
        LET robot == IsRobotPc(pipes[1].pc)
            expected == ExpectedChars(1, robot, pipes[1].text)
            enter == EnterKeystroke(1, robot)
        IN  /\ ~pipes[1].pressEnter => EnterKeys = <<>>
            /\ IsPrefix(EnterKeys, enter)
            /\ EnterKeys # <<>> =>
                  /\ CharKeys = expected
                  /\ SubSeq(keys, Len(keys) - Len(EnterKeys) + 1, Len(keys)) = EnterKeys
            /\ (TypedToEnd(pipes[1]) /\ pipes[1].pressEnter) => EnterKeys = enter

\* a text of exactly chunkSize characters typed to its end, Enter included
C11_Witness ==
    /\ pipes[1].pc = "debounce" /\ pipes[1].outcome = "typed"
    /\ Len(pipes[1].text) = chunkSize
    /\ pipes[1].pressEnter
    /\ Len(EnterKeys) = 2

-----------------------------------------------------------------------------
\* Replay properties of index.js (under Spec, where keys holds the
\* injections since the last acceptance)

\* the pipes whose replay has run to its end with no failed injection
Typed == {p \in DOMAIN pipes : pipes[p].pc = "debounce" /\ pipes[p].outcome = "typed"}

\* the Escape keystroke that opens every replay of index.js         (:147-149)
EscapeKeystroke(p) ==
    <<[p |-> p, op |-> "pressKey", key |-> "Escape"],
      [p |-> p, op |-> "releaseKey", key |-> "Escape"]>>

EnterIf(p, pressEnter) == IF pressEnter THEN EnterKeystroke(p, FALSE) ELSE <<>>

\* C12 as stated: the keys of one complete replay are the keystrokes of the
\* characters, then Enter when autoEnter is set, and nothing else.
C12_OnlyCharsAndEnter ==
    \A p \in Typed :
        keys = ExpectedChars(p, FALSE, pipes[p].text) \o EnterIf(p, pipes[p].pressEnter)

\* C12, amended: the keys of one complete replay are one Escape keystroke,
\* then the keystrokes of the characters, then Enter when autoEnter is set,
\* and nothing else.
C12_EscapeCharsAndEnter ==
    \A p \in Typed :
        /\ pipes[p].pressEnter = autoEnter
        /\ keys = EscapeKeystroke(p) \o ExpectedChars(p, FALSE, pipes[p].text)
                    \o EnterIf(p, pipes[p].pressEnter)

\* the text "hi" replayed to its end
C12_Witness ==
    \E p \in Typed : pipes[p].text = <<"h", "i">> /\ Len(keys) = 6

-----------------------------------------------------------------------------
\* Failure handling of the index.js handler (under Spec)

FailureOutcomes == {"readError", "noNdef", "decodeError", "noText", "payloadError"}

\* the read fails the tag: it rejects, or the scanner returns null on what
\* it gave
FailedRead(r) == r.rejected \/ findNdefData(r.data).isNull

\* the message fails the tag: decodeMessage throws, no record has type "T",
\* or decodePayload throws on the first one that has
FailedDecode(dm) ==
    \/ dm.threw
    \/ \A k \in DOMAIN dm.records : dm.records[k].type # "T"
    \/ \E k \in DOMAIN dm.records :
          /\ dm.records[k].type = "T"
          /\ \A m \in 1..(k - 1) : dm.records[m].type # "T"
          /\ ~dm.records[k].payload.ok

\* what the failing step must have done for pipe p
FailureHandled(p) ==
    /\ pipes'[p].pc = "done"
    /\ pipes'[p].outcome \in FailureOutcomes
    /\ processingCard' = FALSE
    /\ keys' = keys
    /\ \A k \in DOMAIN keys' : keys'[k].p # p
    /\ \A q \in DOMAIN pipes' : pipes'[q].pc = "done"

\* the step is pipe p's handler resuming from its read
ReadSettledStep(p) == pipes[p].pc = "read" /\ pipes'[p].pc # "read"

\* C13: the step on which the handler meets any of the per-tag failures
\* ends the pipeline with that failure, has injected no keystroke for the
\* tag, and leaves processingCard false with no pipeline in flight.
C13_FailureReleasesGate ==
    [][\A p \in DOMAIN pipes : ReadSettledStep(p) =>
          \/ FailureHandled(p)
          \/ \A r \in ReadResults :
                LET failedRead == FailedRead(r) IN
                \A dm \in DecodeResults :
                    (failedRead \/ FailedDecode(dm)) => ~AfterRead(p, r, dm)]_vars

\* two tags have failed in two different ways and the gate is open
C13_Witness ==
    /\ Len(pipes) = 2
    /\ \A p \in DOMAIN pipes : pipes[p].pc = "done"
    /\ {pipes[p].outcome : p \in DOMAIN pipes} = {"decodeError", "payloadError"}
    /\ ~processingCard
    /\ keys = <<>>

\* the pipe of the latest acceptance of card X
LatestPipeOf(X) ==
    {p \in DOMAIN pipes : pipes[p].card = X /\ \A q \in DOMAIN pipes : q > p => pipes[q].card # X}

\* C14 as stated: a non-null lastProcessedCard names a card whose latest
\* pipeline has replayed its text to the end; it never names a card whose
\* pipeline is still running or has failed.
C14_RecordedOnlyWhenCompleted ==
    lastProcessedCard # NULL =>
        /\ LatestPipeOf(lastProcessedCard) # {}
        /\ \A p \in LatestPipeOf(lastProcessedCard) : pipes[p].outcome = "typed"

-----------------------------------------------------------------------------
\* Backend errors (under SpecType)

\* C15 as stated: in neither variant does an error thrown by the keystroke
\* backend leave a timer or immediate callback as an uncaught exception.
C15_BackendErrorsCaught ==
    /\ ~crashed
    /\ \A p \in DOMAIN pipes : pipes[p].pc # "r_crashed"

-----------------------------------------------------------------------------
\* Record selection of the index.js handler (under Spec)

\* a text record as the record format defines it: TNF well-known (1), type "T"
IsWellKnownText(record) == record.tnf = 1 /\ record.type = "T"

\* C16 as stated: when the message decodes, the handler replays the payload
\* of the first record with TNF well-known and type "T", and replays
\* nothing when the message has no such record.
C16_FirstWellKnownTextSelected ==
    [][\A p \in DOMAIN pipes : ReadSettledStep(p) =>
          \A r \in ReadResults, dm \in DecodeResults :
              (~r.rejected /\ ~dm.threw /\ AfterRead(p, r, dm) /\ ~findNdefData(r.data).isNull) =>
                  LET wellKnownText == SelectSeq(dm.records, IsWellKnownText) IN
                  IF wellKnownText = <<>> THEN pipes'[p].pc = "done"
                  ELSE wellKnownText[1].payload.ok =>
                          /\ pipes'[p].pc = "startDelay"
                          /\ pipes'[p].text = wellKnownText[1].payload.text]_vars

-----------------------------------------------------------------------------
\* Overrunning TLVs (under SpecScan)

\* a byte 0x03 at q whose length byte L gives q + 2 + L > length
OverrunAt(d, q) == q + 2 <= Len(d) /\ d[q + 1] = 3 /\ q + 2 + d[q + 2] > Len(d)

\* C17 as stated: when a 0x03 with an overrunning length precedes the
\* leftmost valid 0x03 TLV of the buffer, the scan goes on past it and
\* findNdefData still returns the bytes of that valid TLV.
C17_ScanContinuesPastOverrun ==
    (/\ Scanned /\ Len(data) >= 3 /\ ValidTlvs(data) # {}
     /\ \E q \in 0..(Leftmost(ValidTlvs(data)) - 1) : OverrunAt(data, q)) =>
        LET p == Leftmost(ValidTlvs(data))
        IN  ndefData[1] = Buf(SubSeq(data, p + 3, p + 2 + data[p + 2]))

-----------------------------------------------------------------------------
\* Retry after a failure (under Spec)

\* the latest pipeline of card X has ended in a failure
FailedLast(X) ==
    \E p \in LatestPipeOf(X) : pipes[p].pc = "done" /\ pipes[p].outcome \in FailureOutcomes

\* the step starts a read for pipe p
ReadStartedStep(p) ==
    /\ pipes'[p].pc = "read"
    /\ p \in DOMAIN pipes => pipes[p].pc # "read"

\* C18: once the pipeline of X has failed and card-removed for X has
\* occurred since, a card-detected event for X that arrives while no
\* pipeline and no debounce window is active is accepted and starts a new
\* pipeline; and a read only ever starts on the acceptance of a
\* card-detected event.
C18_RetryAfterFailure ==
    [][/\ \A X \in Cards :
            (DetectedStep(X) /\ FailedLast(X) /\ removedSince[X] /\ Active = {})
                => AcceptedStep(X)
       /\ \A p \in DOMAIN pipes' :
            ReadStartedStep(p) =>
                /\ p = Len(pipes')
                /\ \E X \in Cards : AcceptedStep(X)]_vars

\* X failed, was removed and has just been accepted again
C18_Witness ==
    /\ Len(pipes) = 2
    /\ lastEvent = [kind |-> "card", uid |-> pipes[2].card]
    /\ pipes[1].card = pipes[2].card
    /\ pipes[1].pc = "done" /\ pipes[1].outcome \in FailureOutcomes
    /\ pipes[2] = NewPipe(pipes[2].card)

-----------------------------------------------------------------------------
\* The debounce timer (under Spec)

\* the pipes whose debounce timer is armed and has not fired
DebouncePending == {p \in DOMAIN pipes : pipes[p].pc = "debounce"}

\* the pipes between their acceptance and the arming of their debounce timer
InFlight == {p \in DOMAIN pipes : pipes[p].pc \notin {"debounce", "done"}}

\* C20: at most one debounce timer is pending, and while one is pending
\* processingCard is true and no pipeline is in flight.
C20_OneDebounceTimer ==
    /\ Cardinality(DebouncePending) <= 1
    /\ DebouncePending # {} => (processingCard /\ InFlight = {})

\* the debounce timer of the second accepted card is pending after a typing
\* failure, and a card-detected event has just been turned away
C20_Witness ==
    /\ DebouncePending = {2}
    /\ pipes[2].outcome = "typeError"
    /\ pipes[1].pc = "done"
    /\ lastEvent.kind = "card"

-----------------------------------------------------------------------------
\* Replays of part_000 (under SpecRobot)

\* C19 as stated: the keystrokes of one card-detected event's text are never
\* interleaved with those of another: in the order of injection the
\* keystrokes of each replay are contiguous.
C19_ReplaysNotInterleaved ==
    \A m, n \in DOMAIN keys :
        (m < n /\ keys[m].p = keys[n].p) =>
            \A k \in m..n : keys[k].p = keys[m].p

=============================================================================
